---- MODULE Spec2Model ----
(***************************************************************************)
(* shaas: a filesystem subtree served over HTTP; POST and WebSocket        *)
(* requests run a child process whose stdio is bridged to the request.     *)
(* The model follows src/shaas.go.  Strings are sequences of one-character *)
(* strings, so that splitting, folding and joining are computed.           *)
(***************************************************************************)
EXTENDS Integers, Sequences, FiniteSets, TLC

(* ---------------------------------------------------------------- bounds *)
\* longest request body, in bytes, a client sends to one request
MaxBody == 2
\* most bytes a child writes to its stdout/stderr
MaxOut == 2

(* ------------------------------------------------------------- constants *)
StatusOK == 200
StatusSwitchingProtocols == 101
StatusBadRequest == 400
StatusUnauthorized == 401
StatusNotFound == 404
StatusMethodNotAllowed == 405
StatusInternalServerError == 500
\* the permission mask of line 175, octal 0110
ExecMask == 72
\* the exit code of log.Fatal
FatalCode == 1

(* --------------------------------------------------------------- strings *)
Lower == <<"a","b","c","d","e","f","g","h","i","j","k","l","m",
           "n","o","p","q","r","s","t","u","v","w","x","y","z">>
Upper == <<"A","B","C","D","E","F","G","H","I","J","K","L","M",
           "N","O","P","Q","R","S","T","U","V","W","X","Y","Z">>
Digits == <<"0","1","2","3","4","5","6","7","8","9">>

IsLower(r) == \E i \in 1..Len(Lower) : Lower[i] = r
IsUpper(r) == \E i \in 1..Len(Upper) : Upper[i] = r
IsDigit(r) == \E i \in 1..Len(Digits) : Digits[i] = r
DigitVal(r) == (CHOOSE i \in 1..Len(Digits) : Digits[i] = r) - 1

\* strings.HasPrefix
HasPrefix(s, prefix) ==
    /\ Len(s) >= Len(prefix)
    /\ SubSeq(s, 1, Len(prefix)) = prefix

\* strings.Index for a one-character separator: 0-based, -1 when absent
Index(s, c) ==
    IF \E i \in 1..Len(s) : s[i] = c
    THEN (CHOOSE i \in 1..Len(s) : s[i] = c /\ \A j \in 1..(i-1) : s[j] # c) - 1
    ELSE -1

\* strings.LastIndex for a one-character separator: 0-based, -1 when absent
LastIndex(s, c) ==
    IF \E i \in 1..Len(s) : s[i] = c
    THEN (CHOOSE i \in 1..Len(s) : s[i] = c /\ \A j \in (i+1)..Len(s) : s[j] # c) - 1
    ELSE -1

\* the Go slice expression s[lo:hi]
Slice(s, lo, hi) == SubSeq(s, lo + 1, hi)

\* strings.SplitN(s, sep, 2) for a one-character separator
SplitN2(s, c) ==
    LET i == Index(s, c)
    IN  IF i < 0 THEN <<s>>
        ELSE <<Slice(s, 0, i), Slice(s, i + 1, Len(s))>>

\* strings.Join
RECURSIVE Join(_, _)
Join(v, sep) ==
    IF Len(v) = 0 THEN <<>>
    ELSE IF Len(v) = 1 THEN v[1]
    ELSE v[1] \o sep \o Join(Tail(v), sep)

\* bitwise AND of two naturals, as Go's & on the permission bits
RECURSIVE BitAnd(_, _)
BitAnd(a, b) ==
    IF a = 0 \/ b = 0 THEN 0
    ELSE (a % 2) * (b % 2) + 2 * BitAnd(a \div 2, b \div 2)

\* strings.Contains
Contains(s, sub) ==
    \E i \in 0..(Len(s) - Len(sub)) : SubSeq(s, i + 1, i + Len(sub)) = sub

\* decimal formatting of a non-negative integer (strconv.FormatInt, %d)
RECURSIVE Itoa(_)
Itoa(n) ==
    IF n < 10 THEN <<Digits[n + 1]>>
    ELSE Itoa(n \div 10) \o <<Digits[(n % 10) + 1]>>

\* value of a non-empty digit string
RECURSIVE DigitsVal(_)
DigitsVal(s) ==
    IF Len(s) = 0 THEN 0
    ELSE 10 * DigitsVal(SubSeq(s, 1, Len(s) - 1)) + DigitVal(s[Len(s)])

\* strconv.Atoi: an optional sign, then one or more decimal digits.  The
\* strings of the model are too short to leave the range of int.
Atoi(c) ==
    LET signed == Len(c) > 0 /\ c[1] \in {"+", "-"}
        ds     == IF signed THEN Tail(c) ELSE c
        ok     == Len(ds) > 0 /\ \A i \in 1..Len(ds) : IsDigit(ds[i])
    IN  IF ~ok THEN [err |-> TRUE, val |-> 0]
        ELSE [err |-> FALSE,
              val |-> IF signed /\ c[1] = "-" THEN 0 - DigitsVal(ds) ELSE DigitsVal(ds)]

\* path.Join of absolute directory dir with further elements: joined with
\* "/", and Clean removes the doubled separator a root dir would leave
PathJoin(dir, elems) ==
    LET tail == Join(elems, <<"/">>)
    IN  IF dir = <<"/">> THEN dir \o tail ELSE dir \o <<"/">> \o tail

(* ----------------------------------------------------------- literals *)
sGET == <<"G","E","T">>
sPOST == <<"P","O","S","T">>
sPUT == <<"P","U","T">>
sOrigin == <<"O","r","i","g","i","n">>
sAccept == <<"A","c","c","e","p","t">>
sCookie == <<"C","o","o","k","i","e">>
sContentType == <<"C","o","n","t","e","n","t","-","T","y","p","e">>
sWsScheme == <<"w","s",":","/","/">>
sHtml == <<"h","t","m","l">>
sBash == <<"b","a","s","h">>
sBin == <<"b","i","n">>
sHelper == <<"p","s","e","u","d","o","-","i","n","t","e","r","a","c","t","i","v","e","-","b","a","s","h">>
sDefaultPort == <<"5","0","0","0">>
\* the prompt of line 187, its escape sequences left out
sPS1 == <<"P","S","1","=","\\","w"," ","$"," ">>

(* ------------------------------------------------ process environment *)
\* os.Getenv("PORT")
EnvPORT == <<>>
\* os.Environ()
Environ == << <<"P","A","T","H","=","/","b","i","n">> >>

httpPort == IF EnvPORT # <<>> THEN EnvPORT ELSE sDefaultPort

(* ------------------------------------------------------ cgi environment *)
\* a fold that leaves "=" in a header name
upperCaseAndUnderscoreNoEq(r) ==
    IF IsLower(r) THEN Upper[CHOOSE i \in 1..Len(Lower) : Lower[i] = r]
    ELSE IF r = "-" THEN "_"
    ELSE r

\* lines 332-346
upperCaseAndUnderscore(r) ==
    IF IsLower(r) THEN Upper[CHOOSE i \in 1..Len(Lower) : Lower[i] = r]
    ELSE IF r = "-" THEN "_"
    ELSE IF r = "=" THEN "_"
    ELSE r

\* strings.Map(upperCaseAndUnderscore, k) of line 314
foldName(k) == [i \in 1..Len(k) |-> upperCaseAndUnderscore(k[i])]

\* http.Header.Get: the first value of the header, "" when absent.  A
\* header map is the sequence of its (name, values) pairs in the order
\* range visits them.
HeaderGet(h, name) ==
    IF \E i \in 1..Len(h) : h[i].name = name
    THEN (h[CHOOSE i \in 1..Len(h) : h[i].name = name]).values[1]
    ELSE <<>>

\* url.URL.RequestURI
RequestURI(req) ==
    IF req.RawQuery = <<>> THEN req.Path ELSE req.Path \o <<"?">> \o req.RawQuery

\* lines 313-320: one entry per header
HeaderEnv(h) ==
    [i \in 1..Len(h) |->
        LET k == foldName(h[i].name)
            joinStr == IF k = <<"C","O","O","K","I","E">> THEN <<";"," ">> ELSE <<","," ">>
        IN  <<"H","T","T","P","_">> \o k \o <<"=">> \o Join(h[i].values, joinStr)]

cgiEnv(req) ==
    LET env0 == <<
            <<"S","E","R","V","E","R","_","S","O","F","T","W","A","R","E","=","g","o">>,
            <<"S","E","R","V","E","R","_","N","A","M","E","=">> \o req.Host,
            <<"S","E","R","V","E","R","_","P","R","O","T","O","C","O","L","=","H","T","T","P","/","1",".","1">>,
            <<"H","T","T","P","_","H","O","S","T","=">> \o req.Host,
            <<"G","A","T","E","W","A","Y","_","I","N","T","E","R","F","A","C","E","=","C","G","I","/","1",".","1">>,
            <<"R","E","Q","U","E","S","T","_","M","E","T","H","O","D","=">> \o req.Method,
            <<"Q","U","E","R","Y","_","S","T","R","I","N","G","=">> \o req.RawQuery,
            <<"R","E","Q","U","E","S","T","_","U","R","I","=">> \o RequestURI(req),
            <<"P","A","T","H","_","I","N","F","O","=">> \o req.Path,
            <<"S","C","R","I","P","T","_","N","A","M","E","=">> \o req.Path,
            <<"S","C","R","I","P","T","_","F","I","L","E","N","A","M","E","=">> \o req.Path,
            <<"R","E","M","O","T","E","_","A","D","D","R","=">> \o req.RemoteAddr,
            <<"R","E","M","O","T","E","_","H","O","S","T","=">> \o req.RemoteAddr,
            <<"S","E","R","V","E","R","_","P","O","R","T","=">> \o httpPort >>
        env1 == IF req.TLS THEN Append(env0, <<"H","T","T","P","S","=","o","n">>) ELSE env0
        env2 == env1 \o HeaderEnv(req.Header)
        env3 == IF req.ContentLength > 0
                THEN Append(env2, <<"C","O","N","T","E","N","T","_","L","E","N","G","T","H","=">>
                                  \o Itoa(req.ContentLength))
                ELSE env2
        ctype == HeaderGet(req.Header, sContentType)
    IN  IF ctype # <<>>
        THEN Append(env3, <<"C","O","N","T","E","N","T","_","T","Y","P","E","=">> \o ctype)
        ELSE env3

(* ------------------------------------------------------------- inputs *)
\* BASIC_AUTH as the server may be started with: unset, user:password,
\* and a user alone
BasicAuthEnvs == { <<>>, <<"u",":","p">>, <<"u">> }

\* working directories the server may be started in
Cwds == { <<"/","a","p","p">>, <<"/">> }

\* the result of req.BasicAuth()
Auths ==
    { [ok |-> FALSE, user |-> <<>>, pass |-> <<>>],
      [ok |-> TRUE, user |-> <<"u">>, pass |-> <<"p">>],
      [ok |-> TRUE, user |-> <<"u">>, pass |-> <<>>],
      [ok |-> TRUE, user |-> <<"x">>, pass |-> <<"p">>] }

Methods == { sGET, sPOST, sPUT }

\* request paths: a file directly under the root, and one a level below
Paths == { <<"/","x">>, <<"/","d","/","x">> }

\* header maps, each in an order range may visit it in, with the declared
\* content length and the TLS flag of the request that carries them
Profiles ==
    { [Header |-> <<>>, ContentLength |-> 0, TLS |-> FALSE],
      [Header |-> << [name |-> sOrigin, values |-> << <<"w","s",":","/","/","h">> >>] >>,
       ContentLength |-> 0, TLS |-> FALSE],
      [Header |-> << [name |-> sCookie, values |-> << <<"a","=","b">>, <<"c">> >>],
                     [name |-> <<"X",".","y","=","z","-","w">>, values |-> << <<"v">>, <<"w">> >>],
                     [name |-> sContentType, values |-> << <<"t">> >>] >>,
       ContentLength |-> 2, TLS |-> TRUE],
      [Header |-> << [name |-> sAccept, values |-> << <<"h","t","m","l">> >>] >>,
       ContentLength |-> 0 - 1, TLS |-> FALSE] }

Requests ==
    { [Method |-> m, Path |-> p, RawQuery |-> <<>>, Host |-> <<"h">>,
       RemoteAddr |-> <<"c">>, auth |-> a,
       Header |-> pr.Header, ContentLength |-> pr.ContentLength, TLS |-> pr.TLS] :
      m \in Methods, p \in Paths, a \in Auths, pr \in Profiles }

\* the path main registers the exit handler under
sExitPath == <<"/",">","/","e","x","i","t">>
sCode == <<"c","o","d","e">>

\* query strings sent to the exit endpoint
ExitQueries ==
    { <<>>,
      <<"c","o","d","e","=">>,
      <<"c","o","d","e","=","7">>,
      <<"c","o","d","e","=","1","0">>,
      <<"c","o","d","e","=","-","7">>,
      <<"c","o","d","e","=","+","7">>,
      <<"c","o","d","e","=","%","7">>,
      <<"c","o","d","e","=","x">>,
      <<"c","o","d","e","=","7","x">>,
      <<"c","o","d","e","=","-">> }

ExitRequests ==
    { [Method |-> sGET, Path |-> sExitPath, RawQuery |-> q, Host |-> <<"h">>,
       RemoteAddr |-> <<"c">>, auth |-> a,
       Header |-> <<>>, ContentLength |-> 0, TLS |-> FALSE] :
      q \in ExitQueries, a \in Auths }

\* what os.Open and File.Stat may find at a path: the failures, and the
\* results for a directory ("d"), a regular file ("-") and a named pipe
\* ("p") with their permission bits
NoEntry == [open |-> "none", stat |-> "none", type |-> "none", perm |-> 0]
FsOutcomes ==
    { [open |-> "notexist", stat |-> "none", type |-> "none", perm |-> 0],
      [open |-> "err", stat |-> "none", type |-> "none", perm |-> 0],
      [open |-> "ok", stat |-> "err", type |-> "none", perm |-> 0] }
    \cup { [open |-> "ok", stat |-> "ok", type |-> "d", perm |-> q] : q \in {493, 256} }
    \cup { [open |-> "ok", stat |-> "ok", type |-> "-", perm |-> q] : q \in {420, 1, 8, 64} }
    \cup { [open |-> "ok", stat |-> "ok", type |-> "p", perm |-> q] : q \in {493} }

\* what a spawned child does: a filter reads its stdin, writes output and
\* may exit; a daemon reads nothing, writes nothing and never exits
ChildKinds == { "filter", "daemon" }

(* ------------------------------------------------------------ variables *)
VARIABLES
    requireBasicAuth, authUser, authPassword,  \* lines 21-22
    cwd,          \* the server's working directory
    alive,        \* the server process runs
    exitCode,     \* the argument of os.Exit, once called
    exitReq,      \* the last request to the exit endpoint and its response
    pc,           \* the serving task: idle, run (blocked in cmd.Run), done, panic
    req,          \* the request being served
    entry,        \* what the request found at its path
    res,          \* the response
    cmd,          \* the exec.Cmd built by execCmd
    child,        \* the child process
    sent,         \* bytes the client has sent, in order
    inbuf,        \* bytes received from the client and not yet read
    bodyDone,     \* the client has ended the request body
    clientClosed, \* the client has closed the connection
    stdinPipe,    \* bytes written to the child's stdin and not yet read by it
    stdinGo,      \* the goroutine copying in to the child's stdin
    childIn,      \* bytes the child has read from its stdin
    childOut,     \* bytes the child has written
    outPipe,      \* bytes the child has written and the bridge has not yet read
    stdoutGo      \* the goroutine copying the child's output to out

vars == << requireBasicAuth, authUser, authPassword, cwd, alive, exitCode, exitReq,
           pc, req, entry, res, cmd, child, sent, inbuf, bodyDone, clientClosed,
           stdinPipe, stdinGo, childIn, childOut, outPipe, stdoutGo >>

configVars == << requireBasicAuth, authUser, authPassword, cwd >>
streamVars == << sent, inbuf, bodyDone, clientClosed, stdinPipe, stdinGo,
                 childIn, childOut, outPipe, stdoutGo >>

(* ------------------------------------------------------------ responses *)
\* a response nothing has been written to.  status 0: no status line yet;
\* wire: body bytes handed to the transport; buf: body bytes written and
\* not yet flushed
NoRes == [status |-> 0, message |-> "", cause |-> "", json |-> FALSE, body |-> "",
          hijacked |-> FALSE, wire |-> <<>>, buf |-> <<>>]

NoReq == [Method |-> <<>>, Path |-> <<>>, RawQuery |-> <<>>, Host |-> <<>>,
          RemoteAddr |-> <<>>, auth |-> [ok |-> FALSE, user |-> <<>>, pass |-> <<>>],
          Header |-> <<>>, ContentLength |-> 0, TLS |-> FALSE]

NoCmd == [set |-> FALSE, image |-> <<>>, Dir |-> <<>>, Env |-> <<>>, interactive |-> FALSE]

NoChild == [state |-> "none", kind |-> "none", wd |-> <<>>, code |-> 0]

\* lines 251-266.  A hijacked connection takes no status line and no body
\* from the ResponseWriter any more: the error is logged and nothing is sent.
handleError(r, cause, httpStatus, message) ==
    IF r.hijacked THEN r
    ELSE [r EXCEPT !.status = httpStatus, !.message = message, !.cause = cause,
                   !.json = TRUE]

\* what a handler did: the response, the entry it found, the command it
\* built, whether cmd.Start was reached and succeeded, whether os.Exit was
\* called, whether it panicked
Outcome(r, e, c, spawn) ==
    [res |-> r, entry |-> e, cmd |-> c, spawn |-> spawn,
     exit |-> FALSE, code |-> 0, panic |-> FALSE]

(* ------------------------------------------------------------- handlers *)
IsDir(e) == e.type = "d"
IsRegular(e) == e.type = "-"

\* a check that also takes the execute bit of others
IsExecutableAnyBit(e) == IsRegular(e) /\ BitAnd(e.perm, 73) # 0

\* line 175: executable for user or group
IsExecutable(e) == IsRegular(e) /\ BitAnd(e.perm, ExecMask) # 0

\* line 177: the file's path up to its last separator
cmdDir(name) == Slice(name, 0, LastIndex(name, "/"))

\* url.Values.Get after url.ParseQuery, for a query of one parameter: the
\* value of key, with "+" decoded to a space; "" when the key is absent or
\* the query does not parse (a "%" not followed by two hex digits)
QueryGet(rawQuery, key) ==
    LET i == Index(rawQuery, "=")
        k == IF i < 0 THEN rawQuery ELSE Slice(rawQuery, 0, i)
        v == IF i < 0 THEN <<>> ELSE Slice(rawQuery, i + 1, Len(rawQuery))
    IN  IF k # key \/ (\E j \in 1..Len(v) : v[j] = "%") THEN <<>>
        ELSE [j \in 1..Len(v) |-> IF v[j] = "+" THEN " " ELSE v[j]]

\* an exit handler that does not force the code of a malformed parameter
handleExitKeepsCode(r, rq) ==
    LET c == QueryGet(rq.RawQuery, sCode)
        code == IF c # <<>> THEN Atoi(c).val ELSE 0
    IN  { [Outcome(r, NoEntry, NoCmd, "none") EXCEPT !.exit = TRUE, !.code = code] }

\* lines 59-71
handleExit(r, rq) ==
    LET c == QueryGet(rq.RawQuery, sCode)
        code == IF c # <<>>
                THEN (IF Atoi(c).err THEN 1 ELSE Atoi(c).val)
                ELSE 0
    IN  { [Outcome(r, NoEntry, NoCmd, "none") EXCEPT !.exit = TRUE, !.code = code] }

\* lines 156-196, up to the return of cmd.Start inside cmd.Run.  os.Getwd
\* may fail, and then log.Fatal ends the process; cmd.Start may fail.
execCmd(r, rq, e, interactive) ==
    LET name == rq.Path
        env  == Environ \o cgiEnv(rq) \o (IF interactive THEN <<sPS1>> ELSE <<>>)
        run(image, dir) ==
            LET c == [set |-> TRUE, image |-> image, Dir |-> dir, Env |-> env,
                      interactive |-> interactive]
            IN  { Outcome(r, e, c, sp) : sp \in {"ok", "fail"} }
    IN  IF IsDir(e)
        THEN IF interactive
             THEN { [Outcome(r, e, NoCmd, "none") EXCEPT !.exit = TRUE, !.code = FatalCode] }
                  \cup run(PathJoin(cwd, <<sBin, sHelper>>), name)
             ELSE run(sBash, name)
        ELSE IF IsExecutable(e)
        THEN run(name, cmdDir(name))
        ELSE { Outcome(handleError(r, "", StatusBadRequest, "Invalid file type for POST"),
                       e, NoCmd, "none") }

\* lines 109-141.  ReadDir and the second Stat may fail.
handleGet(r, rq, e) ==
    IF IsDir(e)
    THEN { Outcome(handleError(r, "readdir", StatusInternalServerError, "Error reading directory"),
                   e, NoCmd, "none"),
           Outcome([r EXCEPT !.status = StatusOK,
                             !.body = IF Contains(HeaderGet(rq.Header, sAccept), sHtml)
                                      THEN "listing-html" ELSE "listing-json"],
                   e, NoCmd, "none") }
    ELSE IF IsRegular(e)
    THEN { Outcome(handleError(r, "stat", StatusInternalServerError, "Error reading file stat"),
                   e, NoCmd, "none"),
           Outcome([r EXCEPT !.status = StatusOK, !.body = "file"], e, NoCmd, "none") }
    ELSE { Outcome(handleError(r, "", StatusBadRequest, "Invalid file type for GET"),
                   e, NoCmd, "none") }

\* lines 143-146.  The type assertion of line 144 panics on a
\* ResponseWriter that has no Flush method.
handlePost(r, rq, e) ==
    { [Outcome(r, e, NoCmd, "none") EXCEPT !.panic = TRUE] }
    \cup execCmd(r, rq, e, FALSE)

\* lines 148-154: websocket.Handler takes the connection over and answers
\* the handshake, and only then calls the handler it was given
handleWs(r, rq, e) ==
    execCmd([r EXCEPT !.hijacked = TRUE, !.status = StatusSwitchingProtocols], rq, e, TRUE)

\* lines 73-107, for one result of os.Open and Stat
handleAnyOn(r, rq, e) ==
    IF e.open = "notexist"
    THEN { Outcome(handleError(r, "open", StatusNotFound, "File not found"), e, NoCmd, "none") }
    ELSE IF e.open = "err"
    THEN { Outcome(handleError(r, "open", StatusBadRequest, "Error reading path"), e, NoCmd, "none") }
    ELSE IF e.stat = "err"
    THEN { Outcome(handleError(r, "stat", StatusInternalServerError, "Error reading path info"),
                   e, NoCmd, "none") }
    ELSE IF HasPrefix(HeaderGet(rq.Header, sOrigin), sWsScheme)
    THEN handleWs(r, rq, e)
    ELSE IF rq.Method = sGET THEN handleGet(r, rq, e)
    ELSE IF rq.Method = sPOST THEN handlePost(r, rq, e)
    ELSE { Outcome([r EXCEPT !.status = StatusMethodNotAllowed,
                             !.message = "Only GET and POST supported"], e, NoCmd, "none") }

handleAny(r, rq) == UNION { handleAnyOn(r, rq, e) : e \in FsOutcomes }

\* a gate that compares the user and not the password
authorizeUserOnly(h, r, rq) ==
    IF requireBasicAuth /\ ~rq.auth.ok
    THEN { Outcome(handleError(r, "Authorization Required", StatusUnauthorized, "Not Authorized"),
                   NoEntry, NoCmd, "none") }
    ELSE IF requireBasicAuth /\ rq.auth.user # authUser
    THEN { Outcome(handleError(r, "Not Authorized", StatusUnauthorized, "Not Authorized"),
                   NoEntry, NoCmd, "none") }
    ELSE h

\* lines 42-56; h is what the wrapped handler does with the request
authorize(h, r, rq) ==
    IF requireBasicAuth /\ ~rq.auth.ok
    THEN { Outcome(handleError(r, "Authorization Required", StatusUnauthorized, "Not Authorized"),
                   NoEntry, NoCmd, "none") }
    ELSE IF requireBasicAuth /\ (rq.auth.user # authUser \/ rq.auth.pass # authPassword)
    THEN { Outcome(handleError(r, "Not Authorized", StatusUnauthorized, "Not Authorized"),
                   NoEntry, NoCmd, "none") }
    ELSE h

\* lines 37-38: the routes of the default ServeMux
route(rq) ==
    IF rq.Path = sExitPath
    THEN authorize(handleExit(NoRes, rq), NoRes, rq)
    ELSE authorize(handleAny(NoRes, rq), NoRes, rq)

\* what net/http does when a handler returns: a response nothing was
\* written to gets status 200, and what is buffered goes to the client.  A
\* hijacked connection is the handler's own and is closed.
finish(r) ==
    IF r.hijacked THEN r
    ELSE [r EXCEPT !.status = IF r.status = 0 THEN StatusOK ELSE r.status,
                   !.wire = r.wire \o r.buf, !.buf = <<>>]

(* --------------------------------------------------------- stream writes *)
\* http.ResponseWriter.Write: the first write commits status 200
resWrite(r, b) ==
    [r EXCEPT !.status = IF r.status = 0 THEN StatusOK ELSE r.status,
              !.buf = Append(r.buf, b)]

\* http.Flusher.Flush
resFlush(r) == [r EXCEPT !.wire = r.wire \o r.buf, !.buf = <<>>]

\* a write that puts the new byte in front of what was sent
flushWriterWrapperWriteFront(r, b) ==
    [resWrite(r, b) EXCEPT !.wire = <<b>> \o r.wire, !.buf = <<>>]

\* lines 277-281
flushWriterWrapperWrite(r, b) == resFlush(resWrite(r, b))

\* websocket.Conn.Write: one frame per write, straight to the connection
wsWrite(r, b) == [r EXCEPT !.wire = Append(r.wire, b)]

\* out.Write of line 190, for the out execCmd was given
outWrite(r, b) == IF r.hijacked THEN wsWrite(r, b) ELSE flushWriterWrapperWrite(r, b)

(* ----------------------------------------------------------------- init *)
\* lines 24-34, for one value of BASIC_AUTH
initAuth(basicAuth) ==
    LET bits == SplitN2(basicAuth, ":")
    IN  [requireBasicAuth |-> basicAuth # <<>>,
         authUser |-> IF basicAuth # <<>> THEN bits[1] ELSE <<>>,
         authPassword |-> IF basicAuth # <<>> /\ Len(bits) = 2 THEN bits[2] ELSE <<>>]

Idle ==
    /\ pc = "idle" /\ req = NoReq /\ entry = NoEntry /\ res = NoRes /\ cmd = NoCmd
    /\ sent = <<>> /\ inbuf = <<>> /\ bodyDone = FALSE /\ clientClosed = FALSE
    /\ stdinPipe = <<>> /\ stdinGo = "none" /\ childIn = <<>> /\ childOut = <<>>
    /\ outPipe = <<>> /\ stdoutGo = "none"

Init ==
    /\ \E b \in BasicAuthEnvs :
          /\ requireBasicAuth = initAuth(b).requireBasicAuth
          /\ authUser = initAuth(b).authUser
          /\ authPassword = initAuth(b).authPassword
    /\ cwd \in Cwds
    /\ alive = TRUE /\ exitCode = 0 /\ exitReq = NoReq
    /\ child = NoChild
    /\ Idle

(* -------------------------------------------------------------- actions *)
\* os.Exit: the process and all it holds are gone; a child it had spawned
\* is left to itself
Die(code) ==
    /\ alive' = FALSE /\ exitCode' = code
    /\ pc' = "dead" /\ req' = NoReq /\ entry' = NoEntry /\ res' = NoRes /\ cmd' = NoCmd
    /\ sent' = <<>> /\ inbuf' = <<>> /\ bodyDone' = FALSE /\ clientClosed' = FALSE
    /\ stdinPipe' = <<>> /\ stdinGo' = "none" /\ childIn' = <<>> /\ childOut' = <<>>
    /\ outPipe' = <<>> /\ stdoutGo' = "none"
    /\ UNCHANGED << configVars, child >>

\* the working directory a child started from c gets: an empty Dir leaves
\* it in the server's own
childWd(c) == IF c.Dir = <<>> THEN cwd ELSE c.Dir

\* a request arrives and its handler runs until it returns, panics, ends
\* the process or blocks in cmd.Run
Request(S) ==
    /\ alive /\ pc = "idle"
    /\ \E rq \in S : \E o \in route(rq) :
          IF o.exit
          THEN /\ Die(o.code)
               /\ exitReq' = IF rq.Path = sExitPath THEN rq ELSE exitReq
          ELSE /\ req' = rq /\ entry' = o.entry /\ cmd' = o.cmd
               /\ UNCHANGED << configVars, alive, exitCode, exitReq, sent, inbuf, bodyDone,
                               clientClosed, stdinPipe, childIn, childOut, outPipe >>
               /\ IF o.panic
                  THEN /\ pc' = "panic" /\ res' = o.res
                       /\ UNCHANGED << child, stdinGo, stdoutGo >>
                  ELSE IF o.spawn = "ok"
                  THEN /\ pc' = "run" /\ res' = o.res
                       /\ \E k \in ChildKinds :
                             child' = [state |-> "running", kind |-> k,
                                       wd |-> childWd(o.cmd), code |-> 0]
                       /\ stdinGo' = "copy" /\ stdoutGo' = "copy"
                  ELSE /\ pc' = "done" /\ res' = finish(o.res)
                       /\ UNCHANGED << child, stdinGo, stdoutGo >>

\* a request to the exit endpoint is served while another is blocked in
\* the bridge.  One that is not authorized is answered 401 and changes
\* nothing the server holds.
ExitWhileServing(S) ==
    /\ alive /\ pc = "run"
    /\ \E rq \in S : \E o \in route(rq) :
          /\ o.exit
          /\ Die(o.code)
          /\ exitReq' = rq

\* the connection is done with; the next request finds the server as the
\* last one did
Recycle ==
    /\ alive /\ pc \in {"done", "panic"}
    /\ pc' = "idle" /\ req' = NoReq /\ entry' = NoEntry /\ res' = NoRes /\ cmd' = NoCmd
    /\ sent' = <<>> /\ inbuf' = <<>> /\ bodyDone' = FALSE /\ clientClosed' = FALSE
    /\ stdinPipe' = <<>> /\ stdinGo' = "none" /\ childIn' = <<>> /\ childOut' = <<>>
    /\ outPipe' = <<>> /\ stdoutGo' = "none"
    /\ child' = NoChild
    /\ UNCHANGED << configVars, alive, exitCode, exitReq >>

(* ------------------------------------------------------------ the client *)
\* the client sends the next byte of the request body, or of a WebSocket
\* message; the k-th byte sent is k
ClientSend ==
    /\ alive /\ pc = "run" /\ ~clientClosed /\ ~bodyDone
    /\ Len(sent) < MaxBody
    /\ sent' = Append(sent, Len(sent) + 1)
    /\ inbuf' = Append(inbuf, Len(sent) + 1)
    /\ UNCHANGED << configVars, alive, exitCode, exitReq, pc, req, entry, res, cmd, child,
                    bodyDone, clientClosed, stdinPipe, stdinGo, childIn, childOut,
                    outPipe, stdoutGo >>

\* the client ends the body of a POST
ClientEndBody ==
    /\ alive /\ pc = "run" /\ ~clientClosed /\ ~bodyDone
    /\ ~cmd.interactive
    /\ bodyDone' = TRUE
    /\ UNCHANGED << configVars, alive, exitCode, exitReq, pc, req, entry, res, cmd, child,
                    sent, inbuf, clientClosed, stdinPipe, stdinGo, childIn, childOut,
                    outPipe, stdoutGo >>

\* the client closes the WebSocket or the HTTP connection
ClientClose ==
    /\ alive /\ pc = "run" /\ ~clientClosed
    /\ clientClosed' = TRUE
    /\ UNCHANGED << configVars, alive, exitCode, exitReq, pc, req, entry, res, cmd, child,
                    sent, inbuf, bodyDone, stdinPipe, stdinGo, childIn, childOut,
                    outPipe, stdoutGo >>

(* ------------------------------------------------------------ the bridge *)
\* line 189 and cmd.Run: a goroutine copies in to the child's stdin.  It
\* reads a byte and writes it to the pipe; the write fails once the child
\* has exited, and the goroutine ends.
CopyStdin ==
    /\ alive /\ pc = "run" /\ stdinGo = "copy"
    /\ inbuf # <<>>
    /\ inbuf' = Tail(inbuf)
    /\ IF child.state = "running"
       THEN stdinPipe' = Append(stdinPipe, Head(inbuf)) /\ stdinGo' = stdinGo
       ELSE stdinPipe' = stdinPipe /\ stdinGo' = "epipe"
    /\ UNCHANGED << configVars, alive, exitCode, exitReq, pc, req, entry, res, cmd, child,
                    sent, bodyDone, clientClosed, childIn, childOut, outPipe, stdoutGo >>

\* the read of in returns EOF at the end of the body: the goroutine closes
\* the child's stdin and ends
StdinEOF ==
    /\ alive /\ pc = "run" /\ stdinGo = "copy"
    /\ inbuf = <<>> /\ bodyDone /\ ~clientClosed
    /\ stdinGo' = "eof"
    /\ UNCHANGED << configVars, alive, exitCode, exitReq, pc, req, entry, res, cmd, child,
                    sent, inbuf, bodyDone, clientClosed, stdinPipe, childIn, childOut,
                    outPipe, stdoutGo >>

\* the read of in fails or returns EOF because the client has closed the
\* connection: the goroutine closes the child's stdin and ends.  Nothing
\* else in execCmd observes the closure.
StdinClosed ==
    /\ alive /\ pc = "run" /\ stdinGo = "copy"
    /\ clientClosed
    /\ stdinGo' = "closed"
    /\ UNCHANGED << configVars, alive, exitCode, exitReq, pc, req, entry, res, cmd, child,
                    sent, inbuf, bodyDone, clientClosed, stdinPipe, childIn, childOut,
                    outPipe, stdoutGo >>

\* lines 190-191 and cmd.Run: a goroutine copies the child's merged stdout
\* and stderr to out.  The write fails once the client has closed the
\* connection, and the goroutine ends.
CopyStdout ==
    /\ alive /\ pc = "run" /\ stdoutGo = "copy"
    /\ outPipe # <<>>
    /\ outPipe' = Tail(outPipe)
    /\ IF clientClosed
       THEN res' = res /\ stdoutGo' = "err"
       ELSE res' = outWrite(res, Head(outPipe)) /\ stdoutGo' = stdoutGo
    /\ UNCHANGED << configVars, alive, exitCode, exitReq, pc, req, entry, cmd, child,
                    sent, inbuf, bodyDone, clientClosed, stdinPipe, stdinGo, childIn,
                    childOut >>

\* the child has exited and its output is drained: the goroutine ends
StdoutEOF ==
    /\ alive /\ pc = "run" /\ stdoutGo = "copy"
    /\ outPipe = <<>> /\ child.state = "exited"
    /\ stdoutGo' = "eof"
    /\ UNCHANGED << configVars, alive, exitCode, exitReq, pc, req, entry, res, cmd, child,
                    sent, inbuf, bodyDone, clientClosed, stdinPipe, stdinGo, childIn,
                    childOut, outPipe >>

\* lines 192-196: cmd.Run returns once the child has exited and both
\* goroutines have ended; an error is logged and execCmd returns
RunReturn ==
    /\ alive /\ pc = "run"
    /\ child.state = "exited" /\ stdinGo # "copy" /\ stdoutGo # "copy"
    /\ pc' = "done"
    /\ res' = finish(res)
    /\ UNCHANGED << configVars, alive, exitCode, exitReq, req, entry, cmd, child, streamVars >>

(* ------------------------------------------------------------- the child *)
ChildRead ==
    /\ alive /\ child.state = "running" /\ child.kind = "filter"
    /\ stdinPipe # <<>>
    /\ childIn' = Append(childIn, Head(stdinPipe))
    /\ stdinPipe' = Tail(stdinPipe)
    /\ UNCHANGED << configVars, alive, exitCode, exitReq, pc, req, entry, res, cmd, child,
                    sent, inbuf, bodyDone, clientClosed, stdinGo, childOut, outPipe,
                    stdoutGo >>

\* the k-th byte the child writes is k
ChildWrite ==
    /\ alive /\ child.state = "running" /\ child.kind = "filter"
    /\ Len(childOut) < MaxOut
    /\ childOut' = Append(childOut, Len(childOut) + 1)
    /\ outPipe' = Append(outPipe, Len(childOut) + 1)
    /\ UNCHANGED << configVars, alive, exitCode, exitReq, pc, req, entry, res, cmd, child,
                    sent, inbuf, bodyDone, clientClosed, stdinPipe, stdinGo, childIn,
                    stdoutGo >>

ChildExit ==
    /\ alive /\ child.state = "running" /\ child.kind = "filter"
    /\ \E code \in {0, 1} : child' = [child EXCEPT !.state = "exited", !.code = code]
    /\ UNCHANGED << configVars, alive, exitCode, exitReq, pc, req, entry, res, cmd,
                    streamVars >>

\* every kind of request, with an empty body and a child that writes
\* nothing
Next ==
    \/ Request(Requests \cup ExitRequests)
    \/ ExitWhileServing(ExitRequests)
    \/ Recycle
    \/ ClientEndBody
    \/ ClientClose
    \/ StdinEOF
    \/ StdinClosed
    \/ StdoutEOF
    \/ RunReturn
    \/ ChildExit

Spec == Init /\ [][Next]_vars

\* the requests that reach the bridge, with the bytes that cross it
InitBridge ==
    /\ \E b \in { <<>>, <<"u",":","p">> } :
          /\ requireBasicAuth = initAuth(b).requireBasicAuth
          /\ authUser = initAuth(b).authUser
          /\ authPassword = initAuth(b).authPassword
    /\ cwd = <<"/","a","p","p">>
    /\ alive = TRUE /\ exitCode = 0 /\ exitReq = NoReq
    /\ child = NoChild
    /\ Idle

BridgeRequests ==
    { rq \in Requests :
        /\ rq.Path = <<"/","d","/","x">>
        /\ rq.auth = [ok |-> TRUE, user |-> <<"u">>, pass |-> <<"p">>]
        /\ \/ rq.Method = sPOST /\ rq.Header = <<>>
           \/ rq.Method = sGET /\ HeaderGet(rq.Header, sOrigin) # <<>> }

BridgeExitRequests ==
    { rq \in ExitRequests :
        /\ rq.RawQuery = <<"c","o","d","e","=","7">>
        /\ rq.auth = [ok |-> TRUE, user |-> <<"u">>, pass |-> <<"p">>] }

NextBridge ==
    \/ Request(BridgeRequests)
    \/ ExitWhileServing(BridgeExitRequests)
    \/ Recycle
    \/ ClientSend
    \/ ClientEndBody
    \/ ClientClose
    \/ CopyStdin
    \/ StdinEOF
    \/ StdinClosed
    \/ CopyStdout
    \/ StdoutEOF
    \/ RunReturn
    \/ ChildRead
    \/ ChildWrite
    \/ ChildExit

BridgeSpec == InitBridge /\ [][NextBridge]_vars

\* the goroutines of the server and the child are scheduled; the client
\* is free to send, end, close or stay silent
FairBridgeSpec ==
    /\ BridgeSpec
    /\ WF_vars(CopyStdin) /\ WF_vars(StdinEOF) /\ WF_vars(StdinClosed)
    /\ WF_vars(CopyStdout) /\ WF_vars(StdoutEOF) /\ WF_vars(RunReturn)
    /\ WF_vars(ChildRead) /\ WF_vars(ChildWrite) /\ WF_vars(ChildExit)

(* ------------------------------------------------------------ properties *)
IsPrefix(a, b) == Len(a) <= Len(b) /\ SubSeq(b, 1, Len(a)) = a

\* a request is in the serving task's hands, or was until the task ended
Served == pc \in {"run", "done", "panic"}

\* the request carries no credentials, or not the configured ones
Denied(rq) ==
    \/ ~rq.auth.ok
    \/ rq.auth.user # authUser
    \/ rq.auth.pass # authPassword

IsWs(rq) == HasPrefix(HeaderGet(rq.Header, sOrigin), sWsScheme)

\* the request got past os.Open and Stat and went to handlePost
ReachedPost == Served /\ entry.stat = "ok" /\ ~IsWs(req) /\ req.Method = sPOST

\* the entry is a directory, or a regular file with the owner's or the
\* group's execute bit
OwnerOrGroupExec(e) == ((e.perm \div 64) % 2 = 1) \/ ((e.perm \div 8) % 2 = 1)
ValidForExec(e) == e.type = "d" \/ (e.type = "-" /\ OwnerOrGroupExec(e))

\* C1: with credentials configured, a request without them or with other
\* ones is answered 401 "Not Authorized" in JSON and its handler is not
\* invoked: no file is opened, no command is built, no child is spawned and
\* the process lives on; a request to the exit endpoint that did not end the
\* process was such a request.  Without credentials configured the handler
\* is always invoked: the path is opened, and a request to the exit endpoint
\* ends the process.
C1_AuthGate ==
    /\ (Served /\ requireBasicAuth /\ Denied(req)) =>
          /\ res.status = StatusUnauthorized /\ res.json /\ res.message = "Not Authorized"
          /\ entry = NoEntry /\ cmd = NoCmd /\ child = NoChild /\ alive /\ pc = "done"
    /\ (Served /\ req.Path = sExitPath) => (requireBasicAuth /\ Denied(req))
    /\ (Served /\ ~requireBasicAuth) => (entry.open # "none" /\ res.status # StatusUnauthorized)
    /\ (~alive /\ exitReq # NoReq /\ requireBasicAuth) => ~Denied(exitReq)

C1_Witness ==
    /\ pc = "done" /\ requireBasicAuth /\ req.Path = sExitPath
    /\ req.auth.ok /\ req.auth.user = authUser /\ req.auth.pass # authPassword
    /\ res.status = StatusUnauthorized /\ alive

\* C2: on both transports a filesystem or classification error (the path
\* is missing, cannot be opened or cannot be examined, or the entry is no
\* directory and no executable file) is answered with an HTTP error status
\* and a JSON body, before any child is spawned and before anything else is
\* sent, the WebSocket handshake included.
C2_ErrorsBeforeResponse ==
    (Served /\ (IsWs(req) \/ req.Method = sPOST) /\ pc # "panic"
       /\ (entry.open \in {"notexist", "err"} \/ entry.stat = "err"
           \/ (entry.stat = "ok" /\ ~ValidForExec(entry)))) =>
          /\ res.status \in {StatusBadRequest, StatusNotFound, StatusInternalServerError}
          /\ res.json /\ ~res.hijacked /\ res.wire = <<>>
          /\ child = NoChild

\* C3: once the client has closed the connection of a request whose child
\* is running, the child is eventually terminated and the serving task
\* returns.
C3_CloseKillsChild ==
    (alive /\ pc = "run" /\ clientClosed /\ child.state = "running")
        ~> (~alive \/ (child.state # "running" /\ pc # "run"))

\* C4: for an entry that reaches the bridge by POST, execCmd builds and
\* runs a command if and only if the entry is a directory, whatever its
\* permission bits, or a regular file with (mode & 0110) # 0; any other
\* entry is answered 400 "Invalid file type" and no child is spawned.
C4_SpawnIffExecutable ==
    (ReachedPost /\ pc # "panic") =>
        /\ cmd.set <=> ValidForExec(entry)
        /\ child # NoChild => ValidForExec(entry)
        /\ ~ValidForExec(entry) =>
              /\ res.status = StatusBadRequest /\ res.json
              /\ res.message = "Invalid file type for POST"
              /\ child = NoChild /\ pc = "done"
        /\ ValidForExec(entry) => res.status # StatusBadRequest

C4_Witness ==
    /\ ReachedPost /\ pc = "done" /\ entry.type = "-" /\ entry.perm = 1
    /\ res.status = StatusBadRequest /\ child = NoChild

C7_SpawnFailureSurfaced ==
    (ReachedPost /\ pc = "done" /\ cmd.set /\ child = NoChild) =>
        (res.status \in {StatusBadRequest, StatusInternalServerError} /\ res.json)

\* the exit code each query string of ExitQueries asks for: 0 without a
\* code, the integer when the decoded value is one, 1 otherwise
ExpectedExit(q) ==
    CASE q = <<>> -> 0
      [] q = <<"c","o","d","e","=">> -> 0
      [] q = <<"c","o","d","e","=","7">> -> 7
      [] q = <<"c","o","d","e","=","1","0">> -> 10
      [] q = <<"c","o","d","e","=","-","7">> -> 0 - 7
      [] q = <<"c","o","d","e","=","+","7">> -> 1
      [] q = <<"c","o","d","e","=","%","7">> -> 0
      [] q = <<"c","o","d","e","=","x">> -> 1
      [] q = <<"c","o","d","e","=","7","x">> -> 1
      [] q = <<"c","o","d","e","=","-">> -> 1

\* C8: an authorized request to the exit endpoint ends the process with
\* the code its query asks for: 0 when the code is absent or empty, the
\* integer when it is one, 1 when it is malformed; the serving task of a
\* request in flight ends with the process.
C8_ExitCode ==
    (~alive /\ exitReq # NoReq) =>
        /\ exitCode = ExpectedExit(exitReq.RawQuery)
        /\ pc = "dead"
        /\ requireBasicAuth => ~Denied(exitReq)

C8_Witness ==
    /\ ~alive /\ exitReq.RawQuery = <<"c","o","d","e","=","7">> /\ exitCode = 7
    /\ pc = "dead" /\ child.state = "running"

\* the key and the value of an environment entry: what is before, and
\* what is after, its first "="
EnvKey(ent) == Slice(ent, 0, Index(ent, "="))
EnvValue(ent) == Slice(ent, Index(ent, "=") + 1, Len(ent))

\* the entries of an environment, as a set
Entries(env) == { env[i] : i \in 1..Len(env) }

\* C9: every entry of the environment of a child has a key of upper-case
\* letters, digits and underscores only, and a value without "=".
C9_EnvKeyValue ==
    cmd.set =>
        \A ent \in Entries(cmd.Env) :
            /\ \A i \in 1..Len(EnvKey(ent)) :
                  IsUpper(EnvKey(ent)[i]) \/ IsDigit(EnvKey(ent)[i]) \/ EnvKey(ent)[i] = "_"
            /\ \A i \in 1..Len(EnvValue(ent)) : EnvValue(ent)[i] # "="

\* the entry of header h is there: its key is HTTP_ and the name of h with
\* lower-case letters in upper case, "-" and "=" as "_" and every other
\* character as it is; its value is the values of h joined, unchanged
HasHeaderEntry(env, h) ==
    \E ent \in Entries(env) :
        /\ Len(EnvKey(ent)) = 5 + Len(h.name)
        /\ SubSeq(EnvKey(ent), 1, 5) = <<"H","T","T","P","_">>
        /\ \A i \in 1..Len(h.name) :
              LET c == h.name[i]
                  k == EnvKey(ent)[5 + i]
              IN  /\ IsLower(c) => (IsUpper(k) /\ \E j \in 1..Len(Lower) : Lower[j] = c /\ Upper[j] = k)
                  /\ c \in {"-", "="} => k = "_"
                  /\ (~IsLower(c) /\ c \notin {"-", "="}) => k = c
        /\ EnvValue(ent) = Join(h.values, IF h.name = sCookie THEN <<";"," ">> ELSE <<","," ">>)

\* C9, amended: every header of the request has its entry; the key of the
\* entry holds no "=", no "-" and no lower-case letter, and an "=" in a
\* header value stays in the value.
C9_HeaderEntries ==
    cmd.set => \A i \in 1..Len(req.Header) : HasHeaderEntry(cmd.Env, req.Header[i])

C9_Witness ==
    /\ cmd.set
    /\ \E i \in 1..Len(req.Header) : \E j \in 1..Len(req.Header[i].name) :
          req.Header[i].name[j] = "="
    /\ \E ent \in Entries(cmd.Env) :
          /\ SubSeq(ent, 1, 5) = <<"H","T","T","P","_">>
          /\ \E j \in 1..Len(EnvValue(ent)) : EnvValue(ent)[j] = "="

\* the parent directory of each path of Paths
ParentDir(path) ==
    CASE path = <<"/","x">> -> <<"/">>
      [] path = <<"/","d","/","x">> -> <<"/","d">>

\* C10: a child runs the helper in the directory for a directory and an
\* interactive request, a plain shell in the directory for a directory
\* otherwise, and the file itself in its parent directory for an executable
\* file, one directly under the root included.
C10_ImageAndDir ==
    (Served /\ child.state = "running") =>
        IF entry.type = "d"
        THEN /\ child.wd = req.Path
             /\ cmd.image = IF cmd.interactive
                            THEN cwd \o (IF cwd = <<"/">> THEN <<>> ELSE <<"/">>)
                                     \o sBin \o <<"/">> \o sHelper
                            ELSE sBash
        ELSE /\ cmd.image = req.Path
             /\ child.wd = ParentDir(req.Path)

====
